---- MODULE Spec2Model ----
(***************************************************************************)
(* Model of scripts/cv_studios/studio_update.py: mergeInputs, the          *)
(* path-addressed merge of studio input fragments, and the loop of         *)
(* get_inputs that folds it over the streamed responses; and of a run of   *)
(* studio_update.py, studio_onboarding.py and                              *)
(* studio_build_ports_for_quick_actions.py from the command line to the    *)
(* last remote call: workspace, inputs, build, submit, change controls.    *)
(* Two helpers are modelled as well: find_item_by_tag of                   *)
(* studio_build_ports_for_quick_actions.py and build_failure_message.      *)
(*                                                                         *)
(* Python values are tagged records [t, v]:                                *)
(*   None  -> [t |-> "null", v |-> 0]                                      *)
(*   int   -> [t |-> "int",  v |-> n]                                      *)
(*   str   -> [t |-> "str",  v |-> sequence of one-character strings]      *)
(*   list  -> [t |-> "list", v |-> sequence of values]                     *)
(*   dict  -> [t |-> "dict", v |-> function from keys to values]           *)
(* A dict key and a path segment are Python strings, modelled as the       *)
(* sequence of their characters (<<"a">>, <<"1", "0">>), so that           *)
(* str.isnumeric and int() are computed from the text.                     *)
(***************************************************************************)
EXTENDS Integers, Sequences, FiniteSets, TLC

VARIABLES root,      \* mergedinputs of get_inputs: the document so far
          prevRoot,  \* the document the last call of mergeInputs was given
          path,      \* path of the last call
          inputs,    \* fragment of the last call
          exc,       \* "none", or the exception the last call raised
          calls,     \* number of calls of mergeInputs made
          rel,       \* how the last call relates to the one before it
          target,    \* the document a stream of leaf responses describes
          pending,   \* the leaf responses of target not yet delivered
          stream,    \* the responses the server delivers to get_inputs, in order
          file,      \* what get_inputs has written to the output file
          script,    \* the script that runs
          args,      \* its command line
          pc,        \* where the run is
          sent,      \* the remote calls made so far, in order
          last,      \* the response a wait loop received last
          observed,  \* the statuses the wait loops saw for their own request
          buildRet,  \* what build_workspace returned
          submitRet, \* the flag submit_workspace returned
          ccIds,     \* the change controls submit_workspace returned
          ccResults, \* what run_change_control returned, call by call
          outcome,   \* how the run ended
          data,      \* the structure find_item_by_tag is given
          target_query, \* the query it looks for
          item,      \* what it returned
          build_results, \* the build results build_failure_message is given
          fail_msg   \* the message it returned

\* the variables of mergeInputs and its callers, and those of a run
mergeVars == <<root, prevRoot, path, inputs, exc, calls, rel, target, pending>>
runVars == <<script, args, pc, sent, last, observed, buildRet, submitRet,
             ccIds, ccResults, outcome>>

\* the variables of find_item_by_tag and of build_failure_message
helperVars == <<data, target_query, item, build_results, fail_msg>>

vars == <<mergeVars, stream, file, runVars, helperVars>>

-----------------------------------------------------------------------------
(* Python values *)

Null == [t |-> "null", v |-> 0]
IntV(n) == [t |-> "int", v |-> n]
StrV(s) == [t |-> "str", v |-> s]
ListV(s) == [t |-> "list", v |-> s]
DictV(f) == [t |-> "dict", v |-> f]

EmptyDict == DictV(<<>>)
EmptyList == ListV(<<>>)

\* isinstance(x, list), isinstance(x, dict)
IsList(x) == x.t = "list"
IsDict(x) == x.t = "dict"

\* a dict with one key
Single(k, x) == [kk \in {k} |-> x]

\* d[k] = x on the mapping of a dict
SetItem(d, k, x) == [kk \in (DOMAIN d) \cup {k} |-> IF kk = k THEN x ELSE d[kk]]

-----------------------------------------------------------------------------
(* str.isnumeric and int() on a segment *)

Digits == {"0", "1", "2", "3", "4", "5", "6", "7", "8", "9"}

DigitVal(c) ==
    CASE c = "0" -> 0 [] c = "1" -> 1 [] c = "2" -> 2 [] c = "3" -> 3
      [] c = "4" -> 4 [] c = "5" -> 5 [] c = "6" -> 6 [] c = "7" -> 7
      [] c = "8" -> 8 [] c = "9" -> 9

\* isnumeric without the test for the empty text: no character that is not
\* numeric
isnumericOrEmpty(s) == \A i \in 1..Len(s) : s[i] \in Digits

\* currElem.isnumeric(): at least one character and every character numeric
isnumeric(s) == Len(s) > 0 /\ \A i \in 1..Len(s) : s[i] \in Digits

\* int(currElem) for a segment of decimal digits
RECURSIVE int(_)
int(s) ==
    IF Len(s) = 0 THEN 0
    ELSE 10 * int(SubSeq(s, 1, Len(s) - 1)) + DigitVal(s[Len(s)])

-----------------------------------------------------------------------------
(* References.  prev and curr are references into the tree under root; a   *)
(* reference is identified by the segments walked to reach it.             *)

\* x[int(seg)] or x[seg], as the walk of mergeInputs reads it
Item(x, seg) == IF isnumeric(seg) THEN x.v[int(seg) + 1] ELSE x.v[seg]

\* the object reached from x by the segments p
RECURSIVE Deref(_, _)
Deref(x, p) == IF p = <<>> THEN x ELSE Deref(Item(x, Head(p)), Tail(p))

\* the tree x after the in-place assignment  ref[last segment of p] = val,
\* ref being the object reached by the segments before the last
RECURSIVE Store(_, _, _)
Store(x, p, val) ==
    IF p = <<>> THEN val
    ELSE IF isnumeric(Head(p))
         THEN ListV([x.v EXCEPT ![int(Head(p)) + 1] = Store(@, Tail(p), val)])
         ELSE DictV(SetItem(x.v, Head(p),
                            Store(IF Head(p) \in DOMAIN x.v THEN x.v[Head(p)] ELSE Null,
                                  Tail(p), val)))

-----------------------------------------------------------------------------
(* mergeInputs *)

\* Extend with the loop bound one too far: while len(curr) <= currElemInt + 1
RECURSIVE ExtendPastEnd(_, _)
ExtendPastEnd(s, n) == IF Len(s) <= n THEN ExtendPastEnd(Append(s, Null), n) ELSE s

\* while len(curr) < currElemInt + 1: curr.append(None)
RECURSIVE Extend(_, _)
Extend(s, n) == IF Len(s) < n THEN Extend(Append(s, Null), n) ELSE s

\* SetContainer keeping the value it converts as the first element of the
\* new list: prev[prevElem] = [curr]
SetContainerKeep(r, done, empty) ==
    LET made == IF IsList(empty) THEN ListV(<<Deref(r, done)>>) ELSE empty
    IN  IF done = <<>> THEN made ELSE Store(r, done, made)

\* "If the current value is not a list / an object, set it to one": the
\* three branches on prevElem.  done holds the segments walked so far, so
\* prevElem is its last segment and prev the object one segment above.
SetContainer(r, done, empty) ==
    IF done = <<>> THEN empty              \* prevElem is None: root = []
    ELSE Store(r, done, empty)             \* prev[prevElemInt] = [] or prev[prevElem] = []

\* Grow with the comparison off by one: if currElemInt > len(curr)
GrowStrict(curr, currElemInt) ==
    IF currElemInt > Len(curr.v)
    THEN ListV(Extend(curr.v, currElemInt + 1))
    ELSE curr

\* Grow that makes a new list of nulls when it extends:
\* curr = [None] * (currElemInt + 1)
GrowFresh(curr, currElemInt) ==
    IF currElemInt >= Len(curr.v)
    THEN ListV([n \in 1..(currElemInt + 1) |-> Null])
    ELSE curr

\* "If this index is past the last index of the current list, extend the
\* list until it is big enough for it."
Grow(curr, currElemInt) ==
    IF currElemInt >= Len(curr.v)
    THEN ListV(Extend(curr.v, currElemInt + 1))
    ELSE curr

\* AddKey without the membership test: curr[currElem] = None every time
AddKeyAlways(curr, currElem) == DictV(SetItem(curr.v, currElem, Null))

\* "If the current value does not contain this key, add it."
AddKey(curr, currElem) ==
    IF currElem \notin DOMAIN curr.v
    THEN DictV(SetItem(curr.v, currElem, Null))
    ELSE curr

\* One iteration of "for currElem in path", from the state st = [root, exc]
\* with the segments done already walked.
Step(st, done, currElem) ==
    IF st.exc # "none" THEN st
    ELSE IF isnumeric(currElem)
    THEN LET r1 == IF ~IsList(Deref(st.root, done))
                   THEN SetContainer(st.root, done, EmptyList)
                   ELSE st.root
             currElemInt == int(currElem)
             grown == Grow(Deref(r1, done), currElemInt)
         IN  [root |-> Store(r1, done, grown),
              \* curr = curr[currElemInt]
              exc |-> IF currElemInt + 1 \in DOMAIN grown.v
                      THEN "none" ELSE "IndexError"]
    ELSE LET r1 == IF ~IsDict(Deref(st.root, done))
                   THEN SetContainer(st.root, done, EmptyDict)
                   ELSE st.root
             added == AddKey(Deref(r1, done), currElem)
         IN  [root |-> Store(r1, done, added),
              \* curr = curr[currElem]
              exc |-> IF currElem \in DOMAIN added.v
                      THEN "none" ELSE "KeyError"]

\* the loop over path[1..i]
RECURSIVE Walk(_, _, _)
Walk(r, p, i) ==
    IF i = 0 THEN [root |-> r, exc |-> "none"]
    ELSE Step(Walk(r, p, i - 1), SubSeq(p, 1, i - 1), p[i])

\* the key a hashable item gives: a str its text; an int and None, which
\* are not strings, a tuple that no text equals
KeyOf(x) ==
    CASE x.t = "str" -> x.v
      [] x.t = "int" -> <<"int", x.v>>
      [] x.t = "null" -> <<"None">>

\* dict.update(other) for one element of a sequence argument: the element
\* is converted to a sequence, must have length 2, and its first item is
\* the key.  acc = [v, exc] is the mapping so far.
UpdateItem(acc, e) ==
    IF acc.exc # "none" THEN acc
    ELSE CASE e.t \in {"null", "int"} ->
                [v |-> acc.v, exc |-> "TypeError"]        \* not a sequence
           [] e.t = "str" ->
                IF Len(e.v) # 2
                THEN [v |-> acc.v, exc |-> "ValueError"]
                ELSE [v |-> SetItem(acc.v, <<e.v[1]>>, StrV(<<e.v[2]>>)),
                      exc |-> "none"]
           [] e.t = "list" ->
                IF Len(e.v) # 2
                THEN [v |-> acc.v, exc |-> "ValueError"]
                ELSE IF e.v[1].t \in {"list", "dict"}
                THEN [v |-> acc.v, exc |-> "TypeError"]   \* unhashable key
                ELSE [v |-> SetItem(acc.v, KeyOf(e.v[1]), e.v[2]),
                      exc |-> "none"]
           [] e.t = "dict" /\ Cardinality(DOMAIN e.v) # 2 ->
                [v |-> acc.v, exc |-> "ValueError"]
    \* Not modelled: an element that is a two-key dict (its two keys become
    \* key and value in their insertion order, which a mapping does not
    \* record).  FragmentSet holds no such element.

RECURSIVE UpdateSeq(_, _, _)
UpdateSeq(d, s, i) ==
    IF i = 0 THEN [v |-> d, exc |-> "none"]
    ELSE UpdateItem(UpdateSeq(d, s, i - 1), s[i])

\* DictUpdate that replaces the object by the fragment instead of merging
DictUpdateReplace(d, other) ==
    IF other.t = "dict"
    THEN [v |-> other.v, exc |-> "none"]
    ELSE IF other.t = "list"
    THEN UpdateSeq(d, other.v, Len(other.v))
    ELSE [v |-> d,
          exc |-> IF other.t = "str"
                  THEN (IF Len(other.v) = 0 THEN "none" ELSE "ValueError")
                  ELSE "TypeError"]

\* curr.update(inputs) on the mapping d of curr
DictUpdate(d, other) ==
    CASE other.t = "dict" ->
            [v |-> [k \in (DOMAIN d) \cup (DOMAIN other.v) |->
                        IF k \in DOMAIN other.v THEN other.v[k] ELSE d[k]],
             exc |-> "none"]
      [] other.t \in {"null", "int"} ->
            [v |-> d, exc |-> "TypeError"]                \* not iterable
      [] other.t = "str" ->
            \* every element is a one-character string
            [v |-> d, exc |-> IF Len(other.v) = 0 THEN "none" ELSE "ValueError"]
      [] other.t = "list" ->
            UpdateSeq(d, other.v, Len(other.v))

\* Finish that merges a list fragment into a list at the target as it merges
\* objects: curr.extend(inputs)
FinishExtend(r, p, fragment) ==
    LET curr == Deref(r, p)
    IN  IF IsDict(curr)
        THEN LET u == DictUpdate(curr.v, fragment)
             IN  [root |-> Store(r, p, DictV(u.v)), exc |-> u.exc]
        ELSE IF IsList(curr) /\ IsList(fragment)
        THEN [root |-> Store(r, p, ListV(curr.v \o fragment.v)), exc |-> "none"]
        ELSE [root |-> Store(r, p, fragment), exc |-> "none"]

\* "If the path leads to an object, then merge it with the previous
\* object.  If it leads to any other type, then simply set it to the
\* inputs."
Finish(r, p, fragment) ==
    LET curr == Deref(r, p)
    IN  IF IsDict(curr)
        THEN LET u == DictUpdate(curr.v, fragment)
             IN  [root |-> Store(r, p, DictV(u.v)), exc |-> u.exc]
        ELSE IF p = <<>>
             THEN [root |-> fragment, exc |-> "none"]     \* currElem is None
             ELSE [root |-> Store(r, p, fragment), exc |-> "none"]

\* mergeInputs(root, path, inputs): the tree held by root afterwards and the
\* exception raised, if any
mergeInputs(r, p, fragment) ==
    LET w == Walk(r, p, Len(p))
    IN  IF w.exc # "none" THEN w ELSE Finish(w.root, p, fragment)

-----------------------------------------------------------------------------
(* get_inputs: mergedinputs = None, then one call of mergeInputs for each  *)
(* streamed response.  An exception leaves the loop and ends the run.      *)

MaxCalls == 2        \* responses in the stream
MaxPathLen == 2      \* segments in a path

\* segments: a list index and an object key
SegmentSet == {<<"1">>, <<"a">>}

RECURSIVE PathsOfLen(_)
PathsOfLen(n) ==
    IF n = 0 THEN {<<>>}
    ELSE {Append(p, s) : p \in PathsOfLen(n - 1), s \in SegmentSet}

PathSet == UNION {PathsOfLen(n) : n \in 0..MaxPathLen}

ka == <<"a">>
kb == <<"b">>

\* fragments: None, scalars, lists and objects, as json.loads returns them
FragmentSet ==
    {Null, IntV(1), StrV(<<"x">>),
     EmptyList, ListV(<<ListV(<<StrV(kb), IntV(2)>>)>>),
     EmptyDict, DictV(Single(ka, DictV(Single(kb, IntV(1)))))}

\* a remote call: the RPC, and the change control it names (0: none)
Req(rpc) == [rpc |-> rpc, cc |-> 0]
CCReq(rpc, c) == [rpc |-> rpc, cc |-> c]

\* a response of the workspace stream: the request IDs it lists, each with
\* its status, the state of the workspace and the change controls spawned;
\* a response of the change control stream: the status of the change
\* control and its error text
WorkspaceResponse(r, s, ids) ==
    [responses |-> r, state |-> s, cc_ids |-> ids, status |-> "", error |-> ""]
ChangeControlResponse(s, e) ==
    [responses |-> <<>>, state |-> "", cc_ids |-> <<>>, status |-> s, error |-> e]
NoResponse == WorkspaceResponse(<<>>, "", <<>>)

\* the output file before it is written, and as yaml.dump writes it
NoFile == [written |-> FALSE, path |-> <<>>, inputs |-> Null]
YamlFile(doc) == [written |-> TRUE, path |-> <<>>, inputs |-> doc]

NoArgs ==
    [token |-> FALSE, wsid |-> FALSE, operation |-> "", yaml_file |-> FALSE,
     actions |-> FALSE, update_id |-> FALSE, build_only |-> FALSE,
     tsv |-> FALSE, studio_inputs |-> FALSE]

\* no script runs: mergeInputs is called on its own
NoRun ==
    /\ stream = <<>>
    /\ file = NoFile
    /\ script = ""
    /\ args = NoArgs
    /\ pc = ""
    /\ sent = <<>>
    /\ last = NoResponse
    /\ observed = [build |-> {}, submit |-> {}]
    /\ buildRet = "unset"
    /\ submitRet = "unset"
    /\ ccIds = <<>>
    /\ ccResults = <<>>
    /\ outcome = "running"

\* find_item_by_tag has not been called
NoItem == [found |-> FALSE, at |-> <<>>]
NoHelper ==
    /\ data = Null
    /\ target_query = <<>>
    /\ item = NoItem
    /\ build_results = <<>>
    /\ fail_msg = <<>>

Init ==
    /\ root = Null
    /\ prevRoot = Null
    /\ path = <<>>
    /\ inputs = Null
    /\ exc = "none"
    /\ calls = 0
    /\ rel = "first"
    /\ target = Null
    /\ pending = {}
    /\ NoRun
    /\ NoHelper

\* mergedinputs = mergeInputs(mergedinputs, path, split)
Apply(p, f) ==
    /\ calls < MaxCalls
    /\ exc = "none"
    /\ LET res == mergeInputs(root, p, f)
       IN  /\ root' = res.root
           /\ exc' = res.exc
    /\ prevRoot' = root
    /\ path' = p
    /\ inputs' = f
    /\ calls' = calls + 1
    /\ rel' = IF calls = 0 THEN "first"
              ELSE IF p = path /\ f = inputs THEN "same"
              ELSE IF p = path THEN "samePath"
              ELSE "other"
    /\ UNCHANGED <<helperVars, target, pending, stream, file, runVars>>

Next == \E p \in PathSet, f \in FragmentSet : Apply(p, f)

Spec == Init /\ [][Next]_vars

TypeOK ==
    /\ path \in PathSet
    /\ inputs \in FragmentSet
    /\ exc \in {"none", "TypeError", "ValueError", "IndexError", "KeyError"}
    /\ calls \in 0..MaxCalls

-----------------------------------------------------------------------------
(* A stream that delivers a document leaf by leaf: one response for each   *)
(* leaf, its path the keys and the decimal indices that lead to the leaf,  *)
(* in any order of delivery.                                               *)

MaxListLen == 2      \* elements in a list of a delivered document

DigitChar(n) ==
    CASE n = 0 -> "0" [] n = 1 -> "1" [] n = 2 -> "2" [] n = 3 -> "3"
      [] n = 4 -> "4" [] n = 5 -> "5" [] n = 6 -> "6" [] n = 7 -> "7"
      [] n = 8 -> "8" [] n = 9 -> "9"

\* the decimal text of a list index
RECURSIVE IndexText(_)
IndexText(n) ==
    IF n < 10 THEN <<DigitChar(n)>>
    ELSE Append(IndexText(n \div 10), DigitChar(n % 10))

\* the (path, value) pairs of the leaves of x, x being reached by prefix
RECURSIVE LeafPairs(_, _)
LeafPairs(x, prefix) ==
    CASE x.t = "list" ->
            UNION {LeafPairs(x.v[i], Append(prefix, IndexText(i - 1))) : i \in DOMAIN x.v}
      [] x.t = "dict" ->
            UNION {LeafPairs(x.v[k], Append(prefix, k)) : k \in DOMAIN x.v}
      [] OTHER -> {[path |-> prefix, value |-> x]}

LeafSet == {Null, IntV(1)}

\* non-empty lists and non-empty objects over the documents of S
ListsOver(S) == UNION {{ListV(s) : s \in [1..n -> S]} : n \in 1..MaxListLen}
DictsOver(S) == UNION {{DictV(f) : f \in [K -> S]} : K \in (SUBSET {ka, kb}) \ {{}}}

\* documents of one level of containers, and of two: the containers of the
\* second level hold leaves and containers of the leaf 1
Level1 == LeafSet \cup ListsOver(LeafSet) \cup DictsOver(LeafSet)
Inner == LeafSet \cup ListsOver({IntV(1)}) \cup DictsOver({IntV(1)})
Level2 == Level1 \cup ListsOver(Inner) \cup DictsOver(Inner)

sites == <<"s", "i", "t", "e", "s">>
name == <<"n", "a", "m", "e">>
devices == <<"d", "e", "v", "i", "c", "e", "s">>
id == <<"i", "d">>
NYC == StrV(<<"N", "Y", "C">>)
dev1 == StrV(<<"d", "e", "v", "1">>)

\* {'sites': [{'name': 'NYC', 'devices': [{'id': 'dev1'}]}]}
SitesDocument ==
    DictV(Single(sites,
        ListV(<<DictV([k \in {name, devices} |->
                          IF k = name THEN NYC
                          ELSE ListV(<<DictV(Single(id, dev1))>>)])>>)))

TargetSet == Level2 \cup {SitesDocument}

InitRebuild ==
    /\ root = Null
    /\ prevRoot = Null
    /\ path = <<>>
    /\ inputs = Null
    /\ exc = "none"
    /\ calls = 0
    /\ rel = "first"
    /\ target \in TargetSet
    /\ pending = LeafPairs(target, <<>>)
    /\ NoRun
    /\ NoHelper

\* the response of one leaf arrives and is merged
Deliver(pair) ==
    /\ exc = "none"
    /\ pair \in pending
    /\ LET res == mergeInputs(root, pair.path, pair.value)
       IN  /\ root' = res.root
           /\ exc' = res.exc
    /\ prevRoot' = root
    /\ path' = pair.path
    /\ inputs' = pair.value
    /\ calls' = calls + 1
    /\ rel' = IF calls = 0 THEN "first" ELSE "other"
    /\ pending' = pending \ {pair}
    /\ UNCHANGED <<helperVars, target, stream, file, runVars>>

NextRebuild == \E pair \in pending : Deliver(pair)

SpecRebuild == InitRebuild /\ [][NextRebuild]_vars

-----------------------------------------------------------------------------
(* get_inputs: the responses of one GetAll stream, each a path and a       *)
(* fragment (what json.loads gives for the text of the response), merged   *)
(* in the order of delivery; the merged document is written to the output  *)
(* file once the stream has ended.  An exception of mergeInputs leaves     *)
(* get_inputs and main, and ends the run.                                  *)

\* segments of a response: decimal texts, texts that look like numbers, the
\* empty text and a plain key
SegmentTexts ==
    {<<"0", "0", "7">>, <<"2">>, <<"-", "1">>, <<"1", ".", "0">>, <<>>, ka}

\* the decimal texts among them
IndexTexts == {<<"0", "0", "7">>, <<"2">>}

\* paths: a segment alone, a segment under a key, an index and a key
\* under an index
StreamPathSet ==
    {<<>>} \cup {<<s>> : s \in SegmentTexts} \cup {<<ka, s>> : s \in SegmentTexts}
        \cup {<<s, u>> : s \in IndexTexts, u \in IndexTexts \cup {ka}}

StreamFragmentSet == {IntV(1), DictV(Single(kb, IntV(1)))}

ResponseSet == {[path |-> p, inputs |-> f] : p \in StreamPathSet, f \in StreamFragmentSet}

\* the streams of up to MaxCalls responses
StreamSet == UNION {[1..n -> ResponseSet] : n \in 0..MaxCalls}

\* the command line of studio_update.py --operation=get
GetArgs == [NoArgs EXCEPT !.token = TRUE, !.operation = "get"]

\* get_inputs has sent its GetAll request and waits for the first response
InitGet ==
    /\ root = Null
    /\ prevRoot = Null
    /\ path = <<>>
    /\ inputs = Null
    /\ exc = "none"
    /\ calls = 0
    /\ rel = "first"
    /\ target = Null
    /\ pending = {}
    /\ stream \in StreamSet
    /\ file = NoFile
    /\ script = "studio_update"
    /\ args = GetArgs
    /\ pc = "get_inputs"
    /\ sent = <<Req("Inputs.GetAll")>>
    /\ last = NoResponse
    /\ observed = [build |-> {}, submit |-> {}]
    /\ buildRet = "unset"
    /\ submitRet = "unset"
    /\ ccIds = <<>>
    /\ ccResults = <<>>
    /\ outcome = "running"
    /\ NoHelper

\* for resp in stub.GetAll(...): the response after the k already taken
NextResponse(s, k) == s[k + 1]

\* one iteration of the loop of get_inputs
Receive ==
    /\ pc = "get_inputs"
    /\ calls < Len(stream)
    /\ LET resp == NextResponse(stream, calls)
           res == mergeInputs(root, resp.path, resp.inputs)
       IN  /\ root' = res.root
           /\ exc' = res.exc
           /\ path' = resp.path
           /\ inputs' = resp.inputs
           /\ rel' = IF calls = 0 THEN "first"
                     ELSE IF resp.path = path /\ resp.inputs = inputs THEN "same"
                     ELSE IF resp.path = path THEN "samePath"
                     ELSE "other"
           /\ pc' = IF res.exc = "none" THEN pc ELSE "done"
           /\ outcome' = IF res.exc = "none" THEN outcome ELSE res.exc
    /\ prevRoot' = root
    /\ calls' = calls + 1
    /\ UNCHANGED <<helperVars, target, pending, stream, file, script, args, sent, last,
                   observed, buildRet, submitRet, ccIds, ccResults>>

\* the stream has ended: yaml.dump({'path': [], 'inputs': mergedinputs}, f),
\* and main returns
WriteFile ==
    /\ pc = "get_inputs"
    /\ calls = Len(stream)
    /\ file' = YamlFile(root)
    /\ pc' = "done"
    /\ outcome' = "returned"
    /\ UNCHANGED <<helperVars, mergeVars, stream, script, args, sent, last, observed,
                   buildRet, submitRet, ccIds, ccResults>>

NextGet == Receive \/ WriteFile

SpecGet == InitGet /\ [][NextGet]_vars

-----------------------------------------------------------------------------
(* A run of a script, from its command line to its last remote call.  A    *)
(* wait loop takes the responses of its stream one by one; the server      *)
(* decides what they hold and when the stream ends.                        *)

MaxUpdates == 1      \* updates the topology service streams
MaxCCs == 2          \* change controls a submission spawns

\* studio_update.py: --token or --token-file, --wsid, --operation,
\* --yaml-file, --action-file (whether getActions reads an action from it),
\* --build-only
UpdateArgs ==
    {[NoArgs EXCEPT !.token = t, !.operation = "get"] : t \in BOOLEAN}
    \cup
    {[NoArgs EXCEPT !.token = t, !.wsid = w, !.operation = "set",
                    !.yaml_file = y, !.actions = a, !.build_only = b] :
        t \in BOOLEAN, w \in BOOLEAN, y \in BOOLEAN, a \in BOOLEAN,
        b \in BOOLEAN}

\* studio_onboarding.py: --token-file, --wsid, --operation, --update-id,
\* --build-only
OnboardingArgs ==
    {[NoArgs EXCEPT !.token = t, !.wsid = w, !.operation = o,
                    !.update_id = u, !.build_only = b] :
        t \in BOOLEAN, w \in BOOLEAN, o \in {"get", "set", "set-all"},
        u \in BOOLEAN, b \in BOOLEAN}

\* studio_build_ports_for_quick_actions.py: --token or --token-file, and
\* whether the files of --file-interface-tsv and
\* --file-interface-studio-inputs exist
PortsArgs ==
    {[NoArgs EXCEPT !.token = t, !.tsv = f, !.studio_inputs = g] :
        t \in BOOLEAN, f \in BOOLEAN, g \in BOOLEAN}

ArgsOf(sc) ==
    CASE sc = "studio_update" -> UpdateArgs
      [] sc = "studio_onboarding" -> OnboardingArgs
      [] sc = "studio_build_ports" -> PortsArgs

InitRun ==
    /\ root = Null
    /\ prevRoot = Null
    /\ path = <<>>
    /\ inputs = Null
    /\ exc = "none"
    /\ calls = 0
    /\ rel = "first"
    /\ target = Null
    /\ pending = {}
    /\ stream = <<>>
    /\ file = NoFile
    /\ script \in {"studio_update", "studio_onboarding", "studio_build_ports"}
    /\ args \in ArgsOf(script)
    /\ pc = "__main__"
    /\ sent = <<>>
    /\ last = NoResponse
    /\ observed = [build |-> {}, submit |-> {}]
    /\ buildRet = "unset"
    /\ submitRet = "unset"
    /\ ccIds = <<>>
    /\ ccResults = <<>>
    /\ outcome = "running"
    /\ NoHelper

\* the command line lacks what the script checks before it calls main (for
\* studio_build_ports, before main creates its channel): the token, the
\* files
InputError ==
    CASE script = "studio_update" -> ~args.token
      [] script = "studio_onboarding" -> ~args.token
      [] script = "studio_build_ports" ->
            ~args.tsv \/ ~args.studio_inputs \/ ~args.token

\* the __main__ block: the arguments are parsed and checked; exit() with a
\* message, or on to main with a channel
Start ==
    /\ pc = "__main__"
    /\ IF InputError
       THEN pc' = "done" /\ outcome' = "usage"
       ELSE pc' = "main" /\ UNCHANGED outcome
    /\ UNCHANGED <<helperVars, mergeVars, stream, file, script, args, sent, last,
                   observed, buildRet, submitRet, ccIds, ccResults>>

\* MainGet with the test of the operation after the workspace step, as
\* studio_onboarding.main has it
MainGetAfterWorkspace ==
    /\ pc = "main"
    /\ script = "studio_update"
    /\ args.operation = "get"
    /\ sent' = sent \o <<Req("WorkspaceConfig.Set"), Req("Inputs.GetAll")>>
    /\ stream' \in StreamSet
    /\ pc' = "get_inputs"
    /\ UNCHANGED <<helperVars, mergeVars, file, script, args, last, observed, buildRet,
                   submitRet, ccIds, ccResults, outcome>>

\* studio_update.main, operation 'get': get_inputs sends its request
MainGet ==
    /\ pc = "main"
    /\ script = "studio_update"
    /\ args.operation = "get"
    /\ sent' = Append(sent, Req("Inputs.GetAll"))
    /\ stream' \in StreamSet
    /\ pc' = "get_inputs"
    /\ UNCHANGED <<helperVars, mergeVars, file, script, args, last, observed, buildRet,
                   submitRet, ccIds, ccResults, outcome>>

\* studio_build_ports main: the tag assignments are fetched, then the
\* files are read and written
MainPorts ==
    /\ pc = "main"
    /\ script = "studio_build_ports"
    /\ sent' = Append(sent, Req("TagAssignment.GetAll"))
    /\ pc' = "done"
    /\ outcome' = "returned"
    /\ UNCHANGED <<helperVars, mergeVars, stream, file, script, args, last, observed,
                   buildRet, submitRet, ccIds, ccResults>>

\* workspace_id = args.wsid, or create_workspace(...)
Workspace ==
    /\ pc = "main"
    /\ \/ script = "studio_update" /\ args.operation = "set"
       \/ script = "studio_onboarding"
    /\ sent' = IF args.wsid THEN sent
               ELSE Append(sent, Req("WorkspaceConfig.Set"))
    /\ pc' = "inputs"
    /\ UNCHANGED <<helperVars, mergeVars, stream, file, script, args, last, observed,
                   buildRet, submitRet, ccIds, ccResults, outcome>>

\* UpdateInputs without "if not inputSet and not actionInvoked: return"
UpdateInputsAlwaysBuild ==
    /\ pc = "inputs"
    /\ script = "studio_update"
    /\ sent' = IF args.yaml_file
               THEN sent \o <<Req("InputsConfig.Set"), Req("AssignedTagsConfig.Set")>>
               ELSE sent
    /\ IF args.actions
       THEN pc' = "done" /\ outcome' = "NameError"
       ELSE pc' = "build" /\ UNCHANGED outcome
    /\ UNCHANGED <<helperVars, mergeVars, stream, file, script, args, last, observed,
                   buildRet, submitRet, ccIds, ccResults>>

\* studio_update.main: update_inputs_via_yaml, then
\* update_inputs_via_autofill for the first action, which reads the name
\* action_services that no import binds (the import is commented out);
\* return if no input has been set
UpdateInputs ==
    /\ pc = "inputs"
    /\ script = "studio_update"
    /\ sent' = IF args.yaml_file
               THEN sent \o <<Req("InputsConfig.Set"), Req("AssignedTagsConfig.Set")>>
               ELSE sent
    /\ IF args.actions
       THEN pc' = "done" /\ outcome' = "NameError"
       ELSE IF ~args.yaml_file
       THEN pc' = "done" /\ outcome' = "returned"
       ELSE pc' = "build" /\ UNCHANGED outcome
    /\ UNCHANGED <<helperVars, mergeVars, stream, file, script, args, last, observed,
                   buildRet, submitRet, ccIds, ccResults>>

\* n requests r
RECURSIVE Times(_, _)
Times(n, r) == IF n = 0 THEN <<>> ELSE Append(Times(n - 1, r), r)

\* AcceptUpdates that returns after listing the updates of operation 'get'
AcceptUpdatesGetReturns(n) ==
    /\ pc = "inputs"
    /\ script = "studio_onboarding"
    /\ CASE args.operation = "get" ->
              /\ sent' = Append(sent, Req("Update.GetAll"))
              /\ pc' = "done"
              /\ outcome' = "returned"
         [] args.operation = "set-all" ->
              /\ sent' = Append(sent, Req("Update.GetAll"))
                         \o Times(n, Req("UpdateConfig.Set"))
              /\ pc' = "build"
              /\ UNCHANGED outcome
         [] args.operation = "set" ->
              IF ~args.update_id
              THEN /\ pc' = "done"
                   /\ outcome' = "usage"
                   /\ UNCHANGED sent
              ELSE /\ sent' = Append(sent, Req("UpdateConfig.Set"))
                   /\ pc' = "build"
                   /\ UNCHANGED outcome
    /\ UNCHANGED <<helperVars, mergeVars, stream, file, script, args, last, observed,
                   buildRet, submitRet, ccIds, ccResults>>

\* studio_onboarding.main: the updates are listed ('get'), all accepted
\* ('set-all') or the one of --update-id accepted ('set')
AcceptUpdates(n) ==
    /\ pc = "inputs"
    /\ script = "studio_onboarding"
    /\ CASE args.operation = "get" ->
              /\ sent' = Append(sent, Req("Update.GetAll"))
              /\ pc' = "build"
              /\ UNCHANGED outcome
         [] args.operation = "set-all" ->
              /\ sent' = Append(sent, Req("Update.GetAll"))
                         \o Times(n, Req("UpdateConfig.Set"))
              /\ pc' = "build"
              /\ UNCHANGED outcome
         [] args.operation = "set" ->
              IF ~args.update_id
              THEN /\ pc' = "done"
                   /\ outcome' = "usage"
                   /\ UNCHANGED sent
              ELSE /\ sent' = Append(sent, Req("UpdateConfig.Set"))
                   /\ pc' = "build"
                   /\ UNCHANGED outcome
    /\ UNCHANGED <<helperVars, mergeVars, stream, file, script, args, last, observed,
                   buildRet, submitRet, ccIds, ccResults>>

\* the statuses of a request in a response, and the final ones
Statuses ==
    {"RESPONSE_STATUS_UNSPECIFIED", "RESPONSE_STATUS_SUCCESS", "RESPONSE_STATUS_FAIL"}
Terminal == {"RESPONSE_STATUS_SUCCESS", "RESPONSE_STATUS_FAIL"}

\* the IDs of the change controls of a submission
CCIdSeqs == {[i \in 1..n |-> i] : n \in 0..MaxCCs}

\* the responses the workspace stream may deliver while the request IDs
\* ids have been sent
WorkspaceResponses(ids) ==
    LET maps == UNION {[S -> Statuses] : S \in SUBSET ids}
    IN  {WorkspaceResponse(r, "WORKSPACE_STATE_PENDING", <<>>) : r \in maps}
        \cup
        {WorkspaceResponse(r, "WORKSPACE_STATE_SUBMITTED", c) :
            r \in maps, c \in CCIdSeqs}

ChangeControlResponses ==
    {ChangeControlResponse(s, e) :
        s \in {"CHANGE_CONTROL_STATUS_RUNNING", "CHANGE_CONTROL_STATUS_COMPLETED"},
        e \in {"", "e"}}

\* main that goes on to submit whatever build_workspace returned
AfterBuildUngated(ok) == IF args.build_only THEN "done" ELSE "submit"

\* main without the stop of --build-only
AfterBuildNoStop(ok) == IF ~ok THEN "done" ELSE "submit"

\* main after build_workspace: "if not build_workspace(...): return",
\* "if args.build_only: return"
AfterBuild(ok) ==
    IF ~ok THEN "done"
    ELSE IF args.build_only THEN "done"
    ELSE "submit"

\* main after submit_workspace: "if not submitted: return"; studio_update
\* then runs the change controls, studio_onboarding returns
AfterSubmit(submitted, ids) ==
    IF ~submitted THEN "done"
    ELSE IF script = "studio_update" /\ ids # <<>> THEN "cc_get"
    ELSE "done"

\* main after run_change_control: the next cc_id of the loop, if any
AfterChangeControl(results) ==
    IF Len(results) < Len(ccIds) THEN "cc_get" ELSE "done"

Ended(p) == IF p = "done" THEN "returned" ELSE "running"

\* build_workspace sends its request
StartBuild ==
    /\ pc = "build"
    /\ sent' = Append(sent, Req("WorkspaceConfig.Set START_BUILD"))
    /\ last' = NoResponse
    /\ pc' = "build_wait"
    /\ UNCHANGED <<helperVars, mergeVars, stream, file, script, args, observed, buildRet,
                   submitRet, ccIds, ccResults, outcome>>

\* one response of the stream build_workspace waits on: the first one that
\* lists build_id ends the loop, and its status decides
BuildResponse(res) ==
    /\ pc = "build_wait"
    /\ last' = res
    /\ IF "build_id" \in DOMAIN res.responses
       THEN LET status == res.responses["build_id"]
                ok == status = "RESPONSE_STATUS_SUCCESS"
            IN  /\ observed' = [observed EXCEPT !.build = @ \cup {status}]
                /\ sent' = IF status = "RESPONSE_STATUS_FAIL"
                           THEN Append(sent, Req("WorkspaceBuild.GetOne"))
                           ELSE sent
                /\ buildRet' = IF ok THEN "True" ELSE "False"
                /\ pc' = AfterBuild(ok)
                /\ outcome' = Ended(AfterBuild(ok))
       ELSE UNCHANGED <<observed, sent, buildRet, pc, outcome>>
    /\ UNCHANGED <<helperVars, mergeVars, stream, file, script, args, submitRet, ccIds,
                   ccResults>>

\* the stream ends and no response has listed build_id: build_res is read
\* unbound
BuildStreamEnd ==
    /\ pc = "build_wait"
    /\ pc' = "done"
    /\ outcome' = "UnboundLocalError"
    /\ UNCHANGED <<helperVars, mergeVars, stream, file, script, args, sent, last,
                   observed, buildRet, submitRet, ccIds, ccResults>>

\* submit_workspace sends its request
StartSubmit ==
    /\ pc = "submit"
    /\ sent' = Append(sent, Req("WorkspaceConfig.Set SUBMIT"))
    /\ last' = NoResponse
    /\ pc' = "submit_wait"
    /\ UNCHANGED <<helperVars, mergeVars, stream, file, script, args, observed, buildRet,
                   submitRet, ccIds, ccResults, outcome>>

\* one response of the stream submit_workspace waits on
SubmitResponse(res) ==
    /\ pc = "submit_wait"
    /\ last' = res
    /\ LET listed == "submit_id" \in DOMAIN res.responses
           failed == listed /\ res.responses["submit_id"] = "RESPONSE_STATUS_FAIL"
           submitted == ~failed /\ res.state = "WORKSPACE_STATE_SUBMITTED"
       IN  /\ observed' = IF listed
                          THEN [observed EXCEPT
                                   !.submit = @ \cup {res.responses["submit_id"]}]
                          ELSE observed
           /\ IF failed \/ submitted
              THEN /\ submitRet' = IF submitted THEN "True" ELSE "False"
                   /\ ccIds' = IF submitted THEN res.cc_ids ELSE ccIds
                   /\ pc' = AfterSubmit(submitted, res.cc_ids)
                   /\ outcome' = Ended(AfterSubmit(submitted, res.cc_ids))
              ELSE UNCHANGED <<submitRet, ccIds, pc, outcome>>
    /\ UNCHANGED <<helperVars, mergeVars, stream, file, script, args, sent, buildRet,
                   ccResults>>

\* the stream ends: return None, False
SubmitStreamEnd ==
    /\ pc = "submit_wait"
    /\ submitRet' = "False"
    /\ pc' = "done"
    /\ outcome' = "returned"
    /\ UNCHANGED <<helperVars, mergeVars, stream, file, script, args, sent, last,
                   observed, buildRet, ccIds, ccResults>>

\* the change control main's loop is at
CurrentCC == ccIds[Len(ccResults) + 1]

\* run_change_control starting before it approves
RequestAfterStartFirst(p) ==
    CASE p = "cc_get" -> "cc_start"
      [] p = "cc_start" -> "cc_approve"
      [] p = "cc_approve" -> "cc_wait"

\* the calls of run_change_control in their order: GetOne, approve, start,
\* then Subscribe
RequestAfter(p) ==
    CASE p = "cc_get" -> "cc_approve"
      [] p = "cc_approve" -> "cc_start"
      [] p = "cc_start" -> "cc_wait"

RequestAt(p) ==
    CASE p = "cc_get" -> "ChangeControl.GetOne"
      [] p = "cc_approve" -> "ApproveConfig.Set"
      [] p = "cc_start" -> "ChangeControlConfig.Set start"

\* one call of run_change_control before it waits
ChangeControlRequest ==
    /\ pc \in {"cc_get", "cc_approve", "cc_start"}
    /\ sent' = Append(sent, CCReq(RequestAt(pc), CurrentCC))
    /\ last' = NoResponse
    /\ pc' = RequestAfter(pc)
    /\ UNCHANGED <<helperVars, mergeVars, stream, file, script, args, observed, buildRet,
                   submitRet, ccIds, ccResults, outcome>>

\* one response of the stream run_change_control waits on; main does not
\* look at what run_change_control returns
ChangeControlResponded(res) ==
    /\ pc = "cc_wait"
    /\ last' = res
    /\ IF res.status = "CHANGE_CONTROL_STATUS_COMPLETED"
       THEN LET ret == IF res.error # "" THEN "False" ELSE "True"
                results == Append(ccResults, ret)
            IN  /\ ccResults' = results
                /\ pc' = AfterChangeControl(results)
                /\ outcome' = Ended(AfterChangeControl(results))
       ELSE UNCHANGED <<ccResults, pc, outcome>>
    /\ UNCHANGED <<helperVars, mergeVars, stream, file, script, args, sent, observed,
                   buildRet, submitRet, ccIds>>

\* the stream ends: return False
ChangeControlStreamEnd ==
    /\ pc = "cc_wait"
    /\ LET results == Append(ccResults, "False")
       IN  /\ ccResults' = results
           /\ pc' = AfterChangeControl(results)
           /\ outcome' = Ended(AfterChangeControl(results))
    /\ UNCHANGED <<helperVars, mergeVars, stream, file, script, args, sent, last,
                   observed, buildRet, submitRet, ccIds>>

NextRun ==
    \/ Start
    \/ MainGet
    \/ Receive
    \/ WriteFile
    \/ MainPorts
    \/ Workspace
    \/ UpdateInputs
    \/ \E n \in 0..MaxUpdates : AcceptUpdates(n)
    \/ StartBuild
    \/ \E res \in WorkspaceResponses({"build_id"}) : BuildResponse(res)
    \/ BuildStreamEnd
    \/ StartSubmit
    \/ \E res \in WorkspaceResponses({"build_id", "submit_id"}) : SubmitResponse(res)
    \/ SubmitStreamEnd
    \/ ChangeControlRequest
    \/ \E res \in ChangeControlResponses : ChangeControlResponded(res)
    \/ ChangeControlStreamEnd

SpecRun == InitRun /\ [][NextRun]_vars

TypeOKRun ==
    /\ pc \in {"__main__", "main", "get_inputs", "inputs", "build", "build_wait",
               "submit", "submit_wait", "cc_get", "cc_approve", "cc_start",
               "cc_wait", "done"}
    /\ outcome \in {"running", "returned", "usage", "NameError",
                    "UnboundLocalError", "TypeError", "ValueError"}
    /\ buildRet \in {"unset", "True", "False"}
    /\ submitRet \in {"unset", "True", "False"}
    /\ (pc = "done") <=> (outcome # "running")

-----------------------------------------------------------------------------
(* find_item_by_tag of studio_build_ports_for_quick_actions.py, the search *)
(* of the studio inputs for the entry of one interface.  The inputs are    *)
(* loaded from YAML: a mapping of them is modelled with its items in their *)
(* order, [t |-> "dict", v |-> sequence of [k, x]], the order in which     *)
(* data.values() yields them.  The dictionary that is returned is an       *)
(* object of the structure searched, which main then updates in place: it  *)
(* is identified by the positions walked to reach it, [found, at].         *)

tags == <<"t", "a", "g", "s">>
query == <<"q", "u", "e", "r", "y">>
members == <<"m", "e", "m", "b", "e", "r", "s">>

Items(s) == [t |-> "dict", v |-> s]
Entry(k, x) == [k |-> k, x |-> x]

\* d.get(key, default)
Get(d, key, default) ==
    IF \E i \in DOMAIN d.v : d.v[i].k = key
    THEN d.v[CHOOSE i \in DOMAIN d.v : d.v[i].k = key].x
    ELSE default

\* data.values() of a dictionary and the elements of a list, in order
Children(x) ==
    CASE x.t = "dict" -> [i \in DOMAIN x.v |-> x.v[i].x]
      [] x.t = "list" -> x.v
      [] OTHER -> <<>>

\* the object a sequence of positions leads to
RECURSIVE At(_, _)
At(x, p) == IF p = <<>> THEN x ELSE At(Children(x)[Head(p)], Tail(p))

\* if result: of a result found under x.  None is false, and so is an
\* empty dictionary
Truthy(x, result) == result.found /\ Len(At(x, result.at).v) > 0

RECURSIVE find_item_by_tag(_, _)
RECURSIVE FirstResult(_, _, _)

\* for value in ...: result = find_item_by_tag(value, target_query);
\* if result: return result.  None when the loop ends.
FirstResult(kids, i, q) ==
    IF i > Len(kids) THEN NoItem
    ELSE LET result == find_item_by_tag(kids[i], q)
         IN  IF Truthy(kids[i], result)
             THEN [found |-> TRUE, at |-> <<i>> \o result.at]
             ELSE FirstResult(kids, i + 1, q)

\* find_item_by_tag that searches the values of a dictionary before it
\* tests the dictionary itself
find_item_by_tagValuesFirst(d, q) ==
    IF IsDict(d)
    THEN LET below == FirstResult(Children(d), 1, q)
             tg == Get(d, tags, Items(<<>>))
         IN  IF below.found THEN below
             ELSE IF IsDict(tg) /\ Get(tg, query, Null) = StrV(q)
             THEN [found |-> TRUE, at |-> <<>>]
             ELSE NoItem
    ELSE IF IsList(d)
    THEN FirstResult(d.v, 1, q)
    ELSE NoItem

\* find_item_by_tag(data, target_query), target_query a str
find_item_by_tag(d, q) ==
    IF IsDict(d)
    THEN LET tg == Get(d, tags, Items(<<>>))
         IN  IF IsDict(tg) /\ Get(tg, query, Null) = StrV(q)
             THEN [found |-> TRUE, at |-> <<>>]
             ELSE FirstResult(Children(d), 1, q)
    ELSE IF IsList(d)
    THEN FirstResult(d.v, 1, q)
    ELSE NoItem

\* the queries: main asks for 'interface:Ethernet<n>@<device id>'
Eth1 == <<"E", "1">>
Eth2 == <<"E", "2">>
QuerySet == {Eth1, Eth2}

\* what a 'tags' entry holds: a dictionary with, without and with another
\* 'query', one whose own 'tags' match, and values that are no dictionary
TagSet ==
    {Items(<<>>),
     Items(<<Entry(query, StrV(Eth1))>>),
     Items(<<Entry(query, StrV(Eth2))>>),
     Items(<<Entry(query, Null)>>),
     Items(<<Entry(tags, Items(<<Entry(query, StrV(Eth1))>>))>>),
     StrV(Eth1),
     ListV(<<StrV(Eth1)>>)}

\* entries of the inputs that hold no further entry: scalars, a
\* dictionary with 'tags' only, one with a 'query' of its own
EntrySet ==
    {Null, StrV(Eth1), Items(<<Entry(query, StrV(Eth1))>>)}
        \cup {Items(<<Entry(tags, tg)>>) : tg \in TagSet}

\* lists of up to MaxListLen such entries
EntryLists == UNION {{ListV(s) : s \in [1..n -> EntrySet]} : n \in 0..MaxListLen}

\* a dictionary that holds entries under 'members', with tags of its own
\* before them, after them, or without
GroupSet ==
    UNION {{Items(<<Entry(members, m)>>),
            Items(<<Entry(tags, tg), Entry(members, m)>>),
            Items(<<Entry(members, m), Entry(tags, tg)>>)} :
              m \in EntrySet \cup EntryLists,
              tg \in {Items(<<Entry(query, StrV(Eth1))>>),
                      Items(<<Entry(query, StrV(Eth2))>>)}}

\* a list of a group and an entry: the first match may lie deeper than a
\* later one
PairSet ==
    {ListV(<<Items(<<Entry(members, m)>>), e>>) :
        m \in EntrySet, e \in EntrySet}

DataSet == EntrySet \cup EntryLists \cup GroupSet \cup PairSet

InitFind ==
    /\ root = Null
    /\ prevRoot = Null
    /\ path = <<>>
    /\ inputs = Null
    /\ exc = "none"
    /\ calls = 0
    /\ rel = "first"
    /\ target = Null
    /\ pending = {}
    /\ stream = <<>>
    /\ file = NoFile
    /\ script = "studio_build_ports"
    /\ args = NoArgs
    /\ pc = "find_item_by_tag"
    /\ sent = <<>>
    /\ last = NoResponse
    /\ observed = [build |-> {}, submit |-> {}]
    /\ buildRet = "unset"
    /\ submitRet = "unset"
    /\ ccIds = <<>>
    /\ ccResults = <<>>
    /\ outcome = "running"
    /\ data \in DataSet
    /\ target_query \in QuerySet
    /\ item = NoItem
    /\ build_results = <<>>
    /\ fail_msg = <<>>

\* studio_input_interface = find_item_by_tag(studio_input, target_query)
FindItem ==
    /\ pc = "find_item_by_tag"
    /\ item' = find_item_by_tag(data, target_query)
    /\ pc' = "found"
    /\ UNCHANGED <<mergeVars, stream, file, script, args, sent, last,
                   observed, buildRet, submitRet, ccIds, ccResults, outcome,
                   data, target_query, build_results, fail_msg>>

NextFind == FindItem

SpecFind == InitFind /\ [][NextFind]_vars

-----------------------------------------------------------------------------
(* build_failure_message of studio_update.py and studio_onboarding.py: the *)
(* text that reports a failed build, device by device.  The build results  *)
(* are the items of res.value.build_results.values in the order the loop   *)
(* meets them, each [dev_id, state, stage] with the three result maps,     *)
(* which map a studio to its errors (a studio without an entry reads as    *)
(* one without errors, as a protobuf map gives it).  An error is           *)
(* identified by a number.  The message is the sequence of its lines,      *)
(* [kind, dev, label, n, err].                                             *)

MaxDevices == 2      \* devices in the build results

\* the studio the errors are read for ("TOPOLOGY" in studio_onboarding,
\* --studio-id in studio_update), and another one
studio_id == "TOPOLOGY"
StudioSet == {studio_id, "other"}

DeviceLine(dev_id) ==
    [kind |-> "device", dev |-> dev_id, label |-> "", n |-> 0, err |-> 0]
StageLine(label) ==
    [kind |-> "stage", dev |-> 0, label |-> label, n |-> 0, err |-> 0]
GroupLine(label) ==
    [kind |-> "group", dev |-> 0, label |-> label, n |-> 0, err |-> 0]
NumberLine(i) ==
    [kind |-> "number", dev |-> 0, label |-> "", n |-> i, err |-> 0]
FieldLine(label, err) ==
    [kind |-> "field", dev |-> 0, label |-> label, n |-> 0, err |-> err]

\* the lines that print the fields of one error
FieldLines(fields, err) == [k \in DOMAIN fields |-> FieldLine(fields[k], err)]

\* for i, err in enumerate(errs, start=1): the number, then the fields;
\* the errors from the k-th on
RECURSIVE Entries(_, _, _)
Entries(errs, k, fields) ==
    IF k > Len(errs) THEN <<>>
    ELSE <<NumberLine(k)>> \o FieldLines(fields, errs[k])
            \o Entries(errs, k + 1, fields)

\* if len(errs) > 0: the title of the group; then the errors
ErrorGroup(label, errs, fields) ==
    (IF Len(errs) > 0 THEN <<GroupLine(label)>> ELSE <<>>)
        \o Entries(errs, 1, fields)

InputFields == <<"Field ID", "Path", "Members", "Details">>
OtherFields == <<"">>
TemplateFields == <<"Line number", "Exception", "Details">>
ValidationFields == <<"Code", "Configlet", "Line number", "Details">>

\* the section of one stage
InputValidation(result) ==
    LET ivr == result.input_validation_results[studio_id]
    IN  <<StageLine("Input validation")>>
            \o ErrorGroup("Input schema errors", ivr.input_schema_errors, InputFields)
            \o ErrorGroup("Input value errors", ivr.input_value_errors, InputFields)
            \o ErrorGroup("Other errors", ivr.other_errors, OtherFields)

ConfigletBuild(result) ==
    LET cbr == result.configlet_build_results[studio_id]
    IN  <<StageLine("Configlet compilation")>>
            \o ErrorGroup("Template errors", cbr, TemplateFields)

ConfigValidation(result) ==
    LET cvr == result.configlet_validation_results[studio_id]
    IN  <<StageLine("Configlet validation")>>
            \o ErrorGroup("Errors", cvr, ValidationFields)

\* DeviceText with a header for every device, whatever its state
DeviceTextAnyState(result) ==
    <<DeviceLine(result.dev_id)>>
        \o (IF result.stage = "INPUT_VALIDATION" THEN InputValidation(result) ELSE <<>>)
        \o (IF result.stage = "CONFIGLET_BUILD" THEN ConfigletBuild(result) ELSE <<>>)
        \o (IF result.stage = "CONFIG_VALIDATION" THEN ConfigValidation(result) ELSE <<>>)

\* one iteration of the loop over the build results
DeviceText(result) ==
    IF result.state = "FAIL"
    THEN <<DeviceLine(result.dev_id)>>
            \o (IF result.stage = "INPUT_VALIDATION" THEN InputValidation(result) ELSE <<>>)
            \o (IF result.stage = "CONFIGLET_BUILD" THEN ConfigletBuild(result) ELSE <<>>)
            \o (IF result.stage = "CONFIG_VALIDATION" THEN ConfigValidation(result) ELSE <<>>)
    ELSE <<>>

\* build_failure_message(res): fail_msg after the first k results
RECURSIVE build_failure_message(_, _)
build_failure_message(results, k) ==
    IF k = 0 THEN <<>>
    ELSE build_failure_message(results, k - 1) \o DeviceText(results[k])

\* errors of a studio in the input validation results, and none
InputErrors(schema, value, other) ==
    [input_schema_errors |-> schema, input_value_errors |-> value,
     other_errors |-> other]
NoInputErrors == InputErrors(<<>>, <<>>, <<>>)

\* what the three result maps of a device hold: errors of every stage for
\* the studio and for the other one; errors of the other studio only
ErrorSet ==
    {[input_validation_results |->
          [s \in StudioSet |-> IF s = studio_id
                               THEN InputErrors(<<2, 1>>, <<>>, <<1>>)
                               ELSE InputErrors(<<1>>, <<1>>, <<>>)],
      configlet_build_results |->
          [s \in StudioSet |-> IF s = studio_id THEN <<1, 2>> ELSE <<2>>],
      configlet_validation_results |->
          [s \in StudioSet |-> IF s = studio_id THEN <<2>> ELSE <<>>]],
     [input_validation_results |->
          [s \in StudioSet |-> IF s = studio_id
                               THEN NoInputErrors
                               ELSE InputErrors(<<>>, <<2, 1>>, <<1>>)],
      configlet_build_results |->
          [s \in StudioSet |-> IF s = studio_id THEN <<>> ELSE <<1>>],
      configlet_validation_results |->
          [s \in StudioSet |-> IF s = studio_id THEN <<>> ELSE <<1, 2>>]]}

BuildStates == {"FAIL", "SUCCESS"}
BuildStages ==
    {"UNSPECIFIED", "INPUT_VALIDATION", "CONFIGLET_BUILD", "CONFIG_VALIDATION"}

BuildResult(dev_id, state, stage, errors) ==
    [dev_id |-> dev_id, state |-> state, stage |-> stage,
     input_validation_results |-> errors.input_validation_results,
     configlet_build_results |-> errors.configlet_build_results,
     configlet_validation_results |-> errors.configlet_validation_results]

\* the build result of a device
BuildResultSet ==
    {BuildResult(d, st, sg, er) :
        d \in 1..MaxDevices, st \in BuildStates, sg \in BuildStages,
        er \in ErrorSet}

InitMessage ==
    /\ root = Null
    /\ prevRoot = Null
    /\ path = <<>>
    /\ inputs = Null
    /\ exc = "none"
    /\ calls = 0
    /\ rel = "first"
    /\ target = Null
    /\ pending = {}
    /\ stream = <<>>
    /\ file = NoFile
    /\ script \in {"studio_update", "studio_onboarding"}
    /\ args = NoArgs
    /\ pc = "build_failure_message"
    /\ sent = <<>>
    /\ last = NoResponse
    /\ observed = [build |-> {}, submit |-> {}]
    /\ buildRet = "unset"
    /\ submitRet = "unset"
    /\ ccIds = <<>>
    /\ ccResults = <<>>
    /\ outcome = "running"
    /\ data = Null
    /\ target_query = <<>>
    /\ item = NoItem
    \* the build results of up to MaxDevices devices, a device once
    /\ \E n \in 0..MaxDevices :
          /\ build_results \in [1..n -> BuildResultSet]
          /\ \A a, b \in 1..n :
                build_results[a].dev_id = build_results[b].dev_id => a = b
    /\ fail_msg = <<>>

\* fail_msg = build_failure_message(res)
FailureMessage ==
    /\ pc = "build_failure_message"
    /\ fail_msg' = build_failure_message(build_results, Len(build_results))
    /\ pc' = "logged"
    /\ UNCHANGED <<mergeVars, stream, file, script, args, sent, last,
                   observed, buildRet, submitRet, ccIds, ccResults, outcome,
                   data, target_query, item, build_results>>

NextMessage == FailureMessage

SpecMessage == InitMessage /\ [][NextMessage]_vars

-----------------------------------------------------------------------------
(* Reading a document *)

\* walking the segments p from x succeeds: every all-digit segment indexes
\* a list longer than the index, every other segment a key of an object
RECURSIVE Resolves(_, _)
Resolves(x, p) ==
    IF p = <<>> THEN TRUE
    ELSE IF isnumeric(Head(p))
         THEN /\ IsList(x)
              /\ int(Head(p)) + 1 \in DOMAIN x.v
              /\ Resolves(x.v[int(Head(p)) + 1], Tail(p))
         ELSE /\ IsDict(x)
              /\ Head(p) \in DOMAIN x.v
              /\ Resolves(x.v[Head(p)], Tail(p))

\* characters of the strings of the model
Chars == Digits \cup {"a", "b", "x"}

IsText(k) == \A i \in DOMAIN k : k[i] \in Chars

\* x is a tree of None, scalars, lists and mappings
RECURSIVE IsTree(_)
IsTree(x) ==
    CASE x.t \in {"null", "int", "str"} -> TRUE
      [] x.t = "list" -> \A i \in DOMAIN x.v : IsTree(x.v[i])
      [] x.t = "dict" -> \A k \in DOMAIN x.v : IsTree(x.v[k])
      [] OTHER -> FALSE

\* x is a Document: a tree whose mappings have string keys only
RECURSIVE IsDocument(_)
IsDocument(x) ==
    CASE x.t \in {"null", "int", "str"} -> TRUE
      [] x.t = "list" -> \A i \in DOMAIN x.v : IsDocument(x.v[i])
      [] x.t = "dict" -> \A k \in DOMAIN x.v : IsText(k) /\ IsDocument(x.v[k])
      [] OTHER -> FALSE

\* the last call returned
Returned == calls > 0 /\ exc = "none"

-----------------------------------------------------------------------------
(* Claims *)

\* C1: read-back.  After a call with a non-empty path has returned, walking
\* the path from the result reaches a value equal to the fragment when the
\* fragment is not an object, and an object holding every key of the
\* fragment with the fragment's value when it is one.
ReadBack ==
    (Returned /\ path # <<>>) =>
        /\ Resolves(root, path)
        /\ LET got == Deref(root, path)
           IN  IF IsDict(inputs)
               THEN /\ IsDict(got)
                    /\ \A k \in DOMAIN inputs.v :
                          k \in DOMAIN got.v /\ got.v[k] = inputs.v[k]
               ELSE got = inputs

\* C2: mergeInputs never fails: every call completes without raising and
\* returns a document.
NeverFails == exc = "none" /\ IsDocument(root)

\* C3: later fragments at the same path win.  When a call follows a call
\* with the same path, the value at the path is the later fragment unless
\* both fragments are objects, and then every key of either fragment has
\* the later fragment's value where it has one, the earlier one's otherwise.
LaterFragmentWins ==
    [][(calls >= 1 /\ calls' = calls + 1 /\ path' = path /\ exc' = "none") =>
          /\ Resolves(root', path')
          /\ LET got == Deref(root', path')
             IN  IF IsDict(inputs) /\ IsDict(inputs')
                 THEN /\ IsDict(got)
                      /\ \A k \in DOMAIN inputs'.v :
                            k \in DOMAIN got.v /\ got.v[k] = inputs'.v[k]
                      /\ \A k \in (DOMAIN inputs.v) \ (DOMAIN inputs'.v) :
                            k \in DOMAIN got.v /\ got.v[k] = inputs.v[k]
                 ELSE got = inputs']_vars

\* C4: empty-path rule.  A call with the empty path returns the root with
\* the fragment's keys merged over it when both are objects, and the
\* fragment itself in every other case.
EmptyPathRule ==
    (calls > 0 /\ path = <<>>) =>
        /\ exc = "none"
        /\ root = IF IsDict(prevRoot) /\ IsDict(inputs)
                  THEN DictV([k \in (DOMAIN prevRoot.v) \cup (DOMAIN inputs.v) |->
                                 IF k \in DOMAIN inputs.v THEN inputs.v[k]
                                 ELSE prevRoot.v[k]])
                  ELSE inputs

\* the object the target location held before the last call, when that call
\* had an object fragment and its path led to an object
MergeCase ==
    /\ calls > 0
    /\ IsDict(inputs)
    /\ Resolves(prevRoot, path)
    /\ IsDict(Deref(prevRoot, path))

\* C5: object-on-object merge is shallow.  When the target location holds
\* an object T and the fragment is an object F, the target afterwards has
\* exactly the keys of T and of F, every key of F with F's value and every
\* key of T alone with its previous value.
ShallowMerge ==
    MergeCase =>
        /\ exc = "none"
        /\ Resolves(root, path)
        /\ LET T == Deref(prevRoot, path).v
               F == inputs.v
               got == Deref(root, path)
           IN  /\ IsDict(got)
               /\ DOMAIN got.v = (DOMAIN T) \cup (DOMAIN F)
               /\ \A k \in DOMAIN F : got.v[k] = F[k]
               /\ \A k \in (DOMAIN T) \ (DOMAIN F) : got.v[k] = T[k]

\* a merge where a key of both objects holds an object in each, and they differ
ShallowMergeReached ==
    /\ MergeCase
    /\ exc = "none"
    /\ LET T == Deref(prevRoot, path).v
           F == inputs.v
       IN  \E k \in (DOMAIN T) \cap (DOMAIN F) :
              /\ IsDict(T[k]) /\ IsDict(F[k]) /\ T[k] # F[k]
              /\ Deref(root, path).v[k] = F[k]

Prefix(p, i) == SubSeq(p, 1, i)

\* segment i of the last path met, in the document the call was given, a
\* value of the other kind: a value that is not a list for an index
\* segment, not an object for a key segment
Converts(i) ==
    /\ calls > 0
    /\ i \in 1..Len(path)
    /\ Resolves(prevRoot, Prefix(path, i - 1))
    /\ LET met == Deref(prevRoot, Prefix(path, i - 1))
       IN  IF isnumeric(path[i]) THEN ~IsList(met) ELSE ~IsDict(met)

\* C8: container conversion discards.  Where a segment meets a value of the
\* other kind, the call returns and that location holds a new container of
\* the needed kind with nothing of the previous contents: a list of nulls up
\* to the index, or an object with the segment as its only key.
ConversionDiscards ==
    \A i \in 1..Len(path) :
        Converts(i) =>
            /\ exc = "none"
            /\ Resolves(root, Prefix(path, i))
            /\ LET now == Deref(root, Prefix(path, i - 1))
               IN  IF isnumeric(path[i])
                   THEN /\ IsList(now)
                        /\ Len(now.v) = int(path[i]) + 1
                        /\ \A j \in 1..int(path[i]) : now.v[j] = Null
                   ELSE /\ IsDict(now)
                        /\ DOMAIN now.v = {path[i]}

\* merge({'a': {'b': 1}}, ['a', '1'], 'x') = {'a': [None, 'x']}
ConversionReached ==
    /\ Converts(2)
    /\ prevRoot = DictV(Single(ka, DictV(Single(kb, IntV(1)))))
    /\ path = <<ka, <<"1">>>>
    /\ inputs = StrV(<<"x">>)
    /\ root = DictV(Single(ka, ListV(<<Null, StrV(<<"x">>)>>)))

\* the list segment i of the last path indexed in the document the call
\* was given: <<>> where there was no list at that location
ListBefore(i) ==
    IF Resolves(prevRoot, Prefix(path, i - 1))
       /\ IsList(Deref(prevRoot, Prefix(path, i - 1)))
    THEN Deref(prevRoot, Prefix(path, i - 1)).v
    ELSE <<>>

Max(a, b) == IF a >= b THEN a ELSE b

\* C9: list growth.  No call raises an index error, and an index segment
\* applied to a list of length n leaves a list of length max(n, index + 1)
\* whose elements below n keep their values and whose added elements are
\* null, the element at the index itself apart.
ListGrowth ==
    /\ exc # "IndexError"
    /\ \A i \in 1..Len(path) :
          (calls > 0 /\ isnumeric(path[i])) =>
              LET old == ListBefore(i)
                  idx == int(path[i])
                  now == Deref(root, Prefix(path, i - 1))
              IN  /\ IsList(now)
                  /\ Len(now.v) = Max(Len(old), idx + 1)
                  /\ \A j \in 1..Len(old) : j # idx + 1 => now.v[j] = old[j]
                  /\ \A j \in (Len(old) + 1)..Len(now.v) :
                        j # idx + 1 => now.v[j] = Null

\* a list of one element grown to two by index 1, its new element a list
\* grown from nothing to [None, inputs]
ListGrowthReached ==
    /\ calls > 0
    /\ exc = "none"
    /\ path = <<<<"1">>, <<"1">>>>
    /\ IsList(prevRoot) /\ Len(prevRoot.v) = 1 /\ prevRoot.v[1] # Null
    /\ root = ListV(<<prevRoot.v[1], ListV(<<Null, inputs>>)>>)

\* C10: well-formedness.  After every call of a sequence that starts from
\* the unset document the document is a tree of lists, objects and leaves
\* in which the path of the call resolves: every index segment indexes a
\* list longer than the index, every key segment an object with that key.
WellFormed == (calls > 0) => (IsTree(root) /\ Resolves(root, path))

\* a second call has converted a container built by the first
WellFormedReached ==
    /\ calls = 2
    /\ exc = "none"
    /\ Len(path) = 2
    /\ Converts(1)
    /\ prevRoot # Null
    /\ Resolves(root, path)

\* C7: reconstruction round trip.  Once every leaf of a document of
\* non-empty objects, non-empty lists and scalar or null leaves has been
\* delivered, in whatever order, no call has raised and the merged document
\* is that document.
Reconstructed ==
    /\ exc = "none"
    /\ (pending = {}) => (root = target)

\* the two leaves of the sites document have been merged
ReconstructedReached ==
    /\ target = SitesDocument
    /\ calls = 2
    /\ pending = {}
    /\ root = SitesDocument

\* the text consists only of digits
OnlyDigits(s) ==
    /\ s # <<>>
    /\ \A i \in DOMAIN s : s[i] \in {"0", "1", "2", "3", "4", "5", "6", "7", "8", "9"}

\* the integer a text of digits denotes, read from the left
RECURSIVE DecimalValue(_, _)
DecimalValue(s, acc) ==
    IF s = <<>> THEN acc
    ELSE DecimalValue(Tail(s), 10 * acc + DigitVal(Head(s)))

\* no value: the segments do not lead anywhere
Missing == [t |-> "missing", v |-> 0]

\* the value the segments p lead to from x, every segment of digits only
\* taken as the zero-based index of a list and every other segment as the
\* key of an object
RECURSIVE ValueAt(_, _)
ValueAt(x, p) ==
    IF p = <<>> THEN x
    ELSE IF OnlyDigits(Head(p))
         THEN IF IsList(x) /\ DecimalValue(Head(p), 0) + 1 \in DOMAIN x.v
              THEN ValueAt(x.v[DecimalValue(Head(p), 0) + 1], Tail(p))
              ELSE Missing
         ELSE IF IsDict(x) /\ Head(p) \in DOMAIN x.v
              THEN ValueAt(x.v[Head(p)], Tail(p))
              ELSE Missing

\* C11: segment classification.  A call that returns has taken every
\* segment whose text consists only of digits as a zero-based list index,
\* the index being the integer value of the text ('007' is index 7), and
\* every other segment, '-1', '1.0' and the empty text included, as an
\* object key: read that way, the path leads to what the call wrote, the
\* fragment or an object holding the keys of the fragment.
SegmentClassification ==
    (calls > 0 /\ exc = "none") =>
        LET got == ValueAt(root, path)
        IN  IF IsDict(inputs)
            THEN /\ IsDict(got)
                 /\ \A k \in DOMAIN inputs.v :
                       k \in DOMAIN got.v /\ got.v[k] = inputs.v[k]
            ELSE got = inputs

\* {'-1': 1} has become {'-1': 1, 'a': [None, ..., None, 1]}, the 1 at index 7
SegmentClassificationReached ==
    /\ calls = 2
    /\ exc = "none"
    /\ path = <<ka, <<"0", "0", "7">>>>
    /\ inputs = IntV(1)
    /\ IsDict(root)
    /\ DOMAIN root.v = {<<"-", "1">>, ka}
    /\ IsList(root.v[ka])
    /\ Len(root.v[ka].v) = 8
    /\ root.v[ka].v[8] = IntV(1)

\* C19: get_inputs consumes the stream in delivery order.  Call k of
\* mergeInputs is given response k of the stream and the document the call
\* before it returned (unset for the first), and the run ends with every
\* response merged once and {path: [], inputs: <the final document>}
\* written, the inputs null for an empty stream.
StreamMergedAndWritten ==
    /\ calls <= Len(stream)
    /\ (calls > 0) => (path = stream[calls].path /\ inputs = stream[calls].inputs)
    /\ (calls = 1) => (prevRoot = Null)
    /\ (pc = "done") =>
          /\ calls = Len(stream)
          /\ file = YamlFile(root)
          /\ (stream = <<>>) => (file.inputs = Null)

\* a submit request has been sent; a request for a change control has
SubmitSent == \E i \in DOMAIN sent : sent[i].rpc = "WorkspaceConfig.Set SUBMIT"
ChangeControlSent == \E i \in DOMAIN sent : sent[i].cc # 0

\* C12: stage gating.  A submit request has been sent only if
\* build_workspace returned True in this run, a request for a change
\* control only if submit_workspace reported success (and only by
\* studio_update); a build that did not succeed and a submission that did
\* not succeed have ended the run with no request of a later stage.
StageGating ==
    /\ SubmitSent => buildRet = "True"
    /\ ChangeControlSent => (submitRet = "True" /\ script = "studio_update")
    /\ (buildRet = "False") => (pc = "done" /\ ~SubmitSent /\ ~ChangeControlSent)
    /\ (submitRet = "False") => (pc = "done" /\ ~ChangeControlSent)

\* studio_update has built, submitted and started a change control
StageGatingReached ==
    /\ script = "studio_update"
    /\ buildRet = "True"
    /\ submitRet = "True"
    /\ \E i \in DOMAIN sent : sent[i].rpc = "ChangeControlConfig.Set start"

\* C13: halt on change-control failure.  Once run_change_control has
\* returned False for a change control, the run has halted and no request
\* has been sent for a change control after it in cc_ids.
HaltOnFailure ==
    \A k \in DOMAIN ccResults :
        (ccResults[k] = "False") =>
            /\ pc = "done"
            /\ \A i \in DOMAIN sent :
                  \A j \in DOMAIN ccIds : (j > k) => (sent[i].cc # ccIds[j])

\* C14: build polling waits for a terminal status.  build_workspace has a
\* result only when a response listed its build ID with the status SUCCESS
\* or FAIL; a listing with another status neither ends the wait nor
\* decides.
BuildWaitsForTerminal ==
    (buildRet # "unset") => (observed.build \cap Terminal # {})

\* the build request has been sent and the wait for it is over
BuildOver ==
    /\ \E i \in DOMAIN sent : sent[i].rpc = "WorkspaceConfig.Set START_BUILD"
    /\ pc # "build_wait"

\* C15: build_workspace returns True if the build was successful and False
\* in every other case, the stream ending without a response for the build
\* ID included; it does not end with an error of its own.
BuildReturnsBoolean ==
    BuildOver =>
        /\ outcome # "UnboundLocalError"
        /\ buildRet \in {"True", "False"}
        /\ (buildRet = "True") <=> ("RESPONSE_STATUS_SUCCESS" \in observed.build)

\* C16: submit polling is tied to its own request.  submit_workspace has
\* reported success only after a response with the status SUCCESS for its
\* submit ID; a FAIL for that ID seen first, and the end of the stream,
\* give (None, False).
SubmitTiedToRequest ==
    /\ (submitRet = "True") => ("RESPONSE_STATUS_SUCCESS" \in observed.submit)
    /\ ("RESPONSE_STATUS_FAIL" \in observed.submit
            /\ "RESPONSE_STATUS_SUCCESS" \notin observed.submit)
          => (submitRet = "False" /\ ccIds = <<>>)

\* the place of change control c in cc_ids
Place(c) == CHOOSE k \in DOMAIN ccIds : ccIds[k] = c

\* C17: change-control ordering.  For each change control the approve
\* request precedes the start request and the start request the wait; the
\* change controls are handled one at a time in the order of cc_ids, no
\* request for the next one before the wait for the previous one has ended.
ChangeControlOrder ==
    /\ \A i \in DOMAIN sent :
          (sent[i].rpc = "ChangeControlConfig.Set start") =>
              \E j \in 1..(i - 1) :
                  sent[j] = CCReq("ApproveConfig.Set", sent[i].cc)
    /\ (pc = "cc_wait") =>
          /\ Len(ccResults) < Len(ccIds)
          /\ sent[Len(sent)] = CCReq("ChangeControlConfig.Set start", CurrentCC)
    /\ \A i \in DOMAIN sent :
          (sent[i].cc # 0) =>
              /\ \E k \in DOMAIN ccIds : ccIds[k] = sent[i].cc
              /\ Place(sent[i].cc) <= Len(ccResults) + 1
              /\ \A j \in 1..(i - 1) :
                    (sent[j].cc # 0) => (Place(sent[j].cc) <= Place(sent[i].cc))

\* the second change control is approved after the wait for the first
ChangeControlOrderReached ==
    /\ Len(ccIds) = 2
    /\ Len(ccResults) = 1
    /\ pc = "cc_start"
    /\ sent[Len(sent)] = CCReq("ApproveConfig.Set", ccIds[2])

\* C18: user-input errors precede all remote calls.  A run that ended
\* reporting a missing input (the token, the update ID of operation 'set',
\* a file) has made no remote call.
InputErrorBeforeCalls == (outcome = "usage") => (sent = <<>>)

\* C20: build-only.  With build_only set, studio_update and
\* studio_onboarding send no submit request and no request for a change
\* control, whatever the build result.
BuildOnly ==
    (script \in {"studio_update", "studio_onboarding"} /\ args.build_only) =>
        (~SubmitSent /\ ~ChangeControlSent)

\* a successful build under --build-only, and the run over
BuildOnlyReached ==
    /\ args.build_only
    /\ buildRet = "True"
    /\ pc = "done"
    /\ outcome = "returned"

-----------------------------------------------------------------------------
(* Claims on the helpers of studio_build_ports_for_quick_actions.py *)

\* the positions of the objects reachable from x through dictionary values
\* and list elements, x itself at <<>>
RECURSIVE Positions(_)
Positions(x) ==
    {<<>>} \cup UNION {{<<i>> \o p : p \in Positions(Children(x)[i])} :
                          i \in DOMAIN Children(x)}

\* x is a dictionary with a 'tags' dictionary whose 'query' is q
Tagged(x, q) ==
    /\ IsDict(x)
    /\ \E i \in DOMAIN x.v :
          /\ x.v[i].k = tags
          /\ IsDict(x.v[i].x)
          /\ \E j \in DOMAIN x.v[i].x.v :
                /\ x.v[i].x.v[j].k = query
                /\ x.v[i].x.v[j].x = StrV(q)

\* position p comes before position r in depth-first order, an object
\* before what it holds
Before(p, r) ==
    \/ Len(p) < Len(r) /\ SubSeq(r, 1, Len(p)) = p
    \/ \E i \in 1..Len(p) :
          /\ i <= Len(r)
          /\ SubSeq(p, 1, i - 1) = SubSeq(r, 1, i - 1)
          /\ p[i] < r[i]

TaggedPositions == {p \in Positions(data) : Tagged(At(data, p), target_query)}

\* C21: find_item_by_tag returns None exactly when no dictionary reachable
\* from data through dictionary values and list elements has a 'tags'
\* dictionary whose 'query' equals target_query; otherwise it returns the
\* first such dictionary in depth-first order, a dictionary coming before
\* its own values and nothing inside a matching dictionary before it.
FirstTagged ==
    (pc = "found") =>
        /\ item.found <=> (TaggedPositions # {})
        /\ item.found =>
              /\ item.at \in TaggedPositions
              /\ \A p \in TaggedPositions : p = item.at \/ Before(item.at, p)

\* the search returned a dictionary that holds another match under an
\* entry that comes before its 'tags'
FirstTaggedReached ==
    /\ pc = "found"
    /\ item.found
    /\ At(data, item.at).v[1].k # tags
    /\ \E p \in TaggedPositions :
          /\ Len(p) > Len(item.at)
          /\ SubSeq(p, 1, Len(item.at)) = item.at

-----------------------------------------------------------------------------
(* Further claims on mergeInputs *)

\* a list of length j + 1, null everywhere except f at index j
FreshList(j, f) == ListV([n \in 1..(j + 1) |-> IF n = j + 1 THEN f ELSE Null])

\* the last call had a path of two segments, the second an index, and the
\* first led to no list: to nothing, or to a value that is not a list
ListMadeUnderParent ==
    /\ calls > 0
    /\ Len(path) = 2
    /\ OnlyDigits(path[2])
    /\ LET at == ValueAt(prevRoot, <<path[1]>>)
       IN  at = Missing \/ ~IsList(at)

\* C22: an index segment directly after another segment makes a list at
\* the parent's element.  When the first segment of a two-segment path
\* leads to no list and the second is the index j, the call returns, and
\* the parent holds at the first segment a list of length j + 1 that is
\* null everywhere except the fragment at j: at index i of a list (of
\* length i + 1 and null elsewhere when the document was unset or no
\* list, its other elements kept otherwise) when the first segment is the
\* index i, under the key when it is a key.
NestedIndex ==
    ListMadeUnderParent =>
        LET made == FreshList(DecimalValue(path[2], 0), inputs)
            i == DecimalValue(path[1], 0)
            before == IF IsList(prevRoot) THEN prevRoot.v ELSE <<>>
            kept == IF IsDict(prevRoot) THEN prevRoot.v ELSE <<>>
        IN  /\ exc = "none"
            /\ IF OnlyDigits(path[1])
               THEN /\ IsList(root)
                    /\ Len(root.v) = Max(Len(before), i + 1)
                    /\ \A n \in DOMAIN root.v :
                          root.v[n] = IF n = i + 1 THEN made
                                      ELSE IF n <= Len(before) THEN before[n]
                                      ELSE Null
               ELSE /\ IsDict(root)
                    /\ DOMAIN root.v = (DOMAIN kept) \cup {path[1]}
                    /\ \A k \in DOMAIN root.v :
                          root.v[k] = IF k = path[1] THEN made ELSE kept[k]

\* from unset, ['007', '2'] has made a list of 8 whose element 7 is
\* [None, None, f]
NestedIndexReached ==
    /\ ListMadeUnderParent
    /\ prevRoot = Null
    /\ path = <<<<"0", "0", "7">>, <<"2">>>>
    /\ Len(root.v) = 8
    /\ root.v[8] = ListV(<<Null, Null, inputs>>)

\* the element 2 of a list, a number, has been replaced by a list of 8
NestedIndexReplaced ==
    /\ ListMadeUnderParent
    /\ IsList(prevRoot)
    /\ path = <<<<"2">>, <<"0", "0", "7">>>>
    /\ prevRoot.v[3] = IntV(1)
    /\ Len(root.v[3].v) = 8

\* what a call leaves alone.  b is the value a location on the path held
\* before the call, a the value it holds after it, p the segments of the
\* path still to walk from there.  A location the call converts to the
\* other container kind, or replaces at the target, is not constrained;
\* in a container that is kept, every element and key beside the path has
\* its value, none is removed, and the same holds below the element on the
\* path; an object merged at the target keeps the keys the fragment lacks.
RECURSIVE Frame(_, _, _, _)
Frame(b, a, p, fragment) ==
    IF p = <<>>
    THEN (IsDict(b) /\ IsDict(fragment)) =>
            /\ IsDict(a)
            /\ \A k \in (DOMAIN b.v) \ (DOMAIN fragment.v) :
                  k \in DOMAIN a.v /\ a.v[k] = b.v[k]
    ELSE IF OnlyDigits(Head(p))
    THEN IsList(b) =>
            LET i == DecimalValue(Head(p), 0)
            IN  /\ IsList(a)
                /\ Len(a.v) >= Len(b.v)
                /\ \A n \in DOMAIN b.v :
                      IF n = i + 1
                      THEN Frame(b.v[n], a.v[n], Tail(p), fragment)
                      ELSE a.v[n] = b.v[n]
    ELSE IsDict(b) =>
            /\ IsDict(a)
            /\ \A k \in DOMAIN b.v :
                  /\ k \in DOMAIN a.v
                  /\ IF k = Head(p)
                     THEN Frame(b.v[k], a.v[k], Tail(p), fragment)
                     ELSE a.v[k] = b.v[k]

\* C23: frame of a merge.  A call of mergeInputs changes nothing off the
\* path: every object key and list element of the document that is neither
\* on the path nor inside a location the call converts to the other
\* container kind or replaces at the target has the same value after the
\* call as before, and no key or element is removed elsewhere.
MergeFrame == (calls > 0) => Frame(prevRoot, root, path, inputs)

\* a list of three with a number at index 2 has been extended to eight
\* for index 7: the number is still at index 2
MergeFrameReached ==
    /\ calls = 2
    /\ exc = "none"
    /\ path = <<<<"0", "0", "7">>>>
    /\ IsList(prevRoot)
    /\ Len(prevRoot.v) = 3
    /\ prevRoot.v[3] = IntV(1)
    /\ Len(root.v) = 8
    /\ root.v[3] = IntV(1)

\* the document in which the segments p lead to x and that holds nothing
\* else: lists null before the index, objects of one key
RECURSIVE Holding(_, _)
Holding(p, x) ==
    IF p = <<>> THEN x
    ELSE IF OnlyDigits(Head(p))
         THEN FreshList(DecimalValue(Head(p), 0), Holding(Tail(p), x))
         ELSE DictV(Single(Head(p), Holding(Tail(p), x)))

\* response whole carries an object for some path and response part a
\* value for a key of that object which the object lacks
SplitOf(whole, part) ==
    /\ IsDict(whole.inputs)
    /\ Len(part.path) = Len(whole.path) + 1
    /\ SubSeq(part.path, 1, Len(whole.path)) = whole.path
    /\ ~OnlyDigits(part.path[Len(part.path)])
    /\ part.path[Len(part.path)] \notin DOMAIN whole.inputs.v

\* the document the two responses of a split describe
Joined(whole, part) ==
    Holding(whole.path,
            DictV(SetItem(whole.inputs.v, part.path[Len(part.path)], part.inputs)))

\* C24: split responses merge in either order.  When the first two
\* responses of a stream are an object F for path p and a value v for the
\* path p + [k], k a key that F lacks, in this order or the other, the
\* second call returns and the document is then the same for both orders:
\* the one in which p leads to F extended with k mapped to v.
SplitEitherOrder ==
    (calls = 2 /\ Len(stream) >= 2) =>
        /\ SplitOf(stream[1], stream[2]) =>
              exc = "none" /\ root = Joined(stream[1], stream[2])
        /\ SplitOf(stream[2], stream[1]) =>
              exc = "none" /\ root = Joined(stream[2], stream[1])

\* the value for ['2', 'a'] came first, the object for ['2'] second
SplitEitherOrderReached ==
    /\ calls = 2
    /\ exc = "none"
    /\ SplitOf(stream[2], stream[1])
    /\ stream[2].path = <<<<"2">>>>
    /\ root = ListV(<<Null, Null, DictV(SetItem(stream[2].inputs.v, ka, stream[1].inputs))>>)

\* the same two responses in the order object, value
SplitInOrderReached ==
    /\ calls = 2
    /\ exc = "none"
    /\ SplitOf(stream[1], stream[2])
    /\ stream[1].path = <<<<"2">>>>

-----------------------------------------------------------------------------
(* Further claims on a run *)

\* C25: studio_update 'get' is read-only.  With operation 'get',
\* studio_update sends no request but the GetAll of the inputs, once: no
\* workspace is created and nothing is set, built, submitted or run.
GetIsReadOnly ==
    (script = "studio_update" /\ args.operation = "get") =>
        /\ Len(sent) <= 1
        /\ \A i \in DOMAIN sent : sent[i] = Req("Inputs.GetAll")

\* a 'get' run of studio_update has merged two responses, written the file
\* and returned
GetIsReadOnlyReached ==
    /\ script = "studio_update"
    /\ args.operation = "get"
    /\ pc = "done"
    /\ outcome = "returned"
    /\ calls = 2
    /\ file.written
    /\ sent = <<Req("Inputs.GetAll")>>

\* a build request has been sent; the inputs have been set from the YAML
\* file; update_inputs_via_autofill has been called
BuildSent == \E i \in DOMAIN sent : sent[i].rpc = "WorkspaceConfig.Set START_BUILD"
InputsSet == \E i \in DOMAIN sent : sent[i].rpc = "InputsConfig.Set"
AutofillInvoked == script = "studio_update" /\ outcome = "NameError"

\* C26: no inputs, no build.  With operation 'set', studio_update has sent
\* a build request only if it has set inputs from a YAML file or invoked an
\* autofill action; with neither, the run ends after the workspace step,
\* having sent nothing but the request that creates the workspace; and
\* with both, the YAML inputs have been set by the time an autofill action
\* is invoked.
NoInputsNoBuild ==
    (script = "studio_update" /\ args.operation = "set") =>
        /\ BuildSent => (InputsSet \/ AutofillInvoked)
        /\ (~args.yaml_file /\ ~args.actions) =>
              /\ \A i \in DOMAIN sent : sent[i] = Req("WorkspaceConfig.Set")
              /\ Len(sent) <= 1
              /\ pc \in {"__main__", "main", "inputs", "done"}
              /\ outcome \in {"running", "usage", "returned"}
        /\ (args.yaml_file /\ AutofillInvoked) => InputsSet

\* a 'set' run with neither a YAML file nor an action has created its
\* workspace and returned
NoInputsNoBuildReached ==
    /\ script = "studio_update"
    /\ args.operation = "set"
    /\ ~args.yaml_file /\ ~args.actions /\ ~args.wsid
    /\ pc = "done"
    /\ outcome = "returned"
    /\ sent = <<Req("WorkspaceConfig.Set")>>

\* a 'set' run with a YAML file has sent its build request
BuildAfterInputsReached ==
    /\ script = "studio_update"
    /\ args.operation = "set"
    /\ BuildSent
    /\ InputsSet

\* the run of studio_onboarding.main takes the one path that skips the
\* build: operation 'set' without an update ID
SkipsBuild == args.operation = "set" /\ ~args.update_id

\* requests of the workspace step and of the operation step
BeforeBuild ==
    {"WorkspaceConfig.Set", "Update.GetAll", "UpdateConfig.Set"}

\* C27: studio_onboarding always proceeds to build.  A run of
\* studio_onboarding.main that has ended has sent a build request, after
\* the requests of its operation step, for every operation but 'set'
\* without an update ID, which sends none; operation 'get' is not
\* read-only: without --wsid it has created a workspace first, then it
\* builds, and it submits when the build succeeded and --build-only is not
\* set.
OnboardingBuilds ==
    (script = "studio_onboarding" /\ args.token) =>
        /\ (pc = "done") => (BuildSent <=> ~SkipsBuild)
        /\ \A i, j \in DOMAIN sent :
              (sent[i].rpc \in BeforeBuild /\
               sent[j].rpc = "WorkspaceConfig.Set START_BUILD") => i < j
        /\ (~args.wsid /\ pc \notin {"__main__", "main"}) =>
              (Len(sent) > 0 /\ sent[1] = Req("WorkspaceConfig.Set"))
        /\ (pc = "done" /\ buildRet = "True" /\ ~args.build_only) => SubmitSent

\* a 'get' run of studio_onboarding without --wsid has ended: it created a
\* workspace, listed the updates, built and submitted
OnboardingBuildsReached ==
    /\ script = "studio_onboarding"
    /\ args.operation = "get"
    /\ ~args.wsid
    /\ pc = "done"
    /\ Len(sent) = 4
    /\ sent[1] = Req("WorkspaceConfig.Set")
    /\ sent[2] = Req("Update.GetAll")
    /\ sent[3].rpc = "WorkspaceConfig.Set START_BUILD"
    /\ sent[4].rpc = "WorkspaceConfig.Set SUBMIT"

-----------------------------------------------------------------------------
(* Claim on build_failure_message *)

\* the lines that are the header of device dev
Headers(dev) ==
    {i \in DOMAIN fail_msg : fail_msg[i].kind = "device" /\ fail_msg[i].dev = dev}

\* the first line after line i whose kind is one of kinds, or the line
\* after the last
NextOf(i, kinds) ==
    LET later == {j \in (i + 1)..Len(fail_msg) : fail_msg[j].kind \in kinds}
    IN  IF later = {} THEN Len(fail_msg) + 1
        ELSE CHOOSE j \in later : \A h \in later : j <= h

\* the title of the section of a stage, and the error groups of the section
\* with the errors listed for each
SectionTitle(stage) ==
    CASE stage = "INPUT_VALIDATION" -> "Input validation"
      [] stage = "CONFIGLET_BUILD" -> "Configlet compilation"
      [] stage = "CONFIG_VALIDATION" -> "Configlet validation"
      [] OTHER -> "none"

Listed(result) ==
    CASE result.stage = "INPUT_VALIDATION" ->
            {<<"Input schema errors",
               result.input_validation_results[studio_id].input_schema_errors>>,
             <<"Input value errors",
               result.input_validation_results[studio_id].input_value_errors>>,
             <<"Other errors",
               result.input_validation_results[studio_id].other_errors>>}
      [] result.stage = "CONFIGLET_BUILD" ->
            {<<"Template errors", result.configlet_build_results[studio_id]>>}
      [] result.stage = "CONFIG_VALIDATION" ->
            {<<"Errors", result.configlet_validation_results[studio_id]>>}
      [] OTHER -> {}

\* the lines from g, the title of an error group, to the end of the group
\* number the errors of the list errs from 1 and print them in its order
Numbered(g, errs) ==
    LET end == NextOf(g, {"group", "stage", "device"})
        numbers == {j \in (g + 1)..(end - 1) : fail_msg[j].kind = "number"}
    IN  /\ Cardinality(numbers) = Len(errs)
        /\ Len(errs) > 0
        /\ fail_msg[g + 1].kind = "number"
        /\ \A j \in (g + 1)..(end - 1) :
              LET ord == Cardinality({x \in numbers : x <= j})
              IN  /\ fail_msg[j].kind = "number" => fail_msg[j].n = ord
                  /\ fail_msg[j].kind = "field" => fail_msg[j].err = errs[ord]

\* the lines from h, the header of the device of result, to the next
\* header are the section of the stage of result and nothing else
SectionOf(h, result) ==
    LET end == NextOf(h, {"device"})
    IN  IF Listed(result) = {}
        THEN end = h + 1
        ELSE /\ end > h + 1
             /\ fail_msg[h + 1] = StageLine(SectionTitle(result.stage))
             /\ \A j \in (h + 2)..(end - 1) :
                   /\ fail_msg[j].kind \in {"group", "number", "field"}
                   /\ fail_msg[j].kind = "group" =>
                         \E gr \in Listed(result) :
                            gr[1] = fail_msg[j].label /\ Numbered(j, gr[2])
                   /\ fail_msg[j].kind # "group" =>
                         \E g \in (h + 2)..(j - 1) : fail_msg[g].kind = "group"

\* C28: build_failure_message structure.  The message has exactly one
\* device header for each device whose build state is FAIL and no line for
\* any other device; each header is followed only by the section of that
\* device's stage (input validation, configlet compilation or configlet
\* validation); within each error group the errors are numbered
\* consecutively from 1 in their listed order; with no failed device the
\* message is empty.
MessageStructure ==
    (pc = "logged") =>
        /\ \A k \in DOMAIN build_results :
              Cardinality(Headers(build_results[k].dev_id)) =
                  IF build_results[k].state = "FAIL" THEN 1 ELSE 0
        /\ \A i \in DOMAIN fail_msg :
              fail_msg[i].kind = "device" =>
                  \E k \in DOMAIN build_results :
                      build_results[k].dev_id = fail_msg[i].dev
        /\ fail_msg # <<>> => fail_msg[1].kind = "device"
        /\ \A k \in DOMAIN build_results :
              \A h \in Headers(build_results[k].dev_id) :
                  SectionOf(h, build_results[k])
        /\ (\A k \in DOMAIN build_results : build_results[k].state # "FAIL") =>
              fail_msg = <<>>

\* a device that succeeded and one that failed input validation with two
\* schema errors and one other error: one header, the errors numbered 1, 2
\* and 1
MessageStructureReached ==
    /\ pc = "logged"
    /\ Len(build_results) = 2
    /\ build_results[1].state = "SUCCESS"
    /\ build_results[1].stage = "CONFIGLET_BUILD"
    /\ build_results[2].state = "FAIL"
    /\ build_results[2].stage = "INPUT_VALIDATION"
    /\ Len(fail_msg) = 16
    /\ fail_msg[1] = DeviceLine(build_results[2].dev_id)
    /\ fail_msg[4].n = 1 /\ fail_msg[5].err = 2
    /\ fail_msg[9].n = 2 /\ fail_msg[10].err = 1
    /\ fail_msg[15].n = 1

====
